---- MODULE Spec2Model ----
(***************************************************************************)
(* Model of DocumentPickerTurboModule                                      *)
(* (harmony/document_picker/src/main/ets/documentPickerTurboModule.ts).    *)
(*                                                                         *)
(* Strings are sequences of one-character strings, files are sequences of  *)
(* bytes, and every await of the module is a point where another pending   *)
(* continuation may run.                                                   *)
(***************************************************************************)
EXTENDS Integers, Sequences, FiniteSets, TLC

VARIABLES
    suffixArg,    \* argument of a direct getPickerFileSuffix call
    suffixRet,    \* its return value
    canIUse,      \* canIUse('...UserFileService.FolderSelection') on this device
    pickPc,       \* position of the pick() call
    dirPc,        \* position of the pickDirectory() call
    options,      \* PickerOptions passed to pick()
    pickerOpt,    \* DocumentSelectOptions handed to documentPicker.select
    pickerRes,    \* settlement of documentPicker.select
    retval,       \* what the finished call gave its caller
    log,          \* lines written through logger.info
    tasks,        \* one entry per running parseFileByFileUri / copyFile call
    files,        \* the file system: path -> bytes
    dirs,         \* directories created by fs.mkdir
    openStreams   \* streams created by fs.createStreamSync and not yet closed

sfxVars  == <<suffixArg, suffixRet>>
callVars == <<canIUse, pickPc, dirPc, options, pickerOpt, pickerRes, retval, log>>
fsVars   == <<tasks, files, dirs, openStreams>>
vars     == <<suffixArg, suffixRet, canIUse, pickPc, dirPc, options, pickerOpt,
              pickerRes, retval, log, tasks, files, dirs, openStreams>>

----------------------------------------------------------------------------
(* Bounds *)

MaxGroups == 2

MaxGroupLen == 3

MaxChunks == 2

MaxHandles == 2

----------------------------------------------------------------------------
(* Values *)

Undefined == "undefined"

Null == "null"

\* an optional value: null / undefined / absent is <<>>, a present value v is <<v>>
JsNull == <<>>

Some(v) == <<v>>

Chars == {"a", "b", " "}

RECURSIVE StringsUpTo(_)
StringsUpTo(n) ==
    IF n = 0 THEN {<<>>}
    ELSE LET shorter == StringsUpTo(n - 1)
         IN  shorter \cup {Append(s, c) : s \in {x \in shorter : Len(x) = n - 1}, c \in Chars}

RECURSIVE ListsUpTo(_, _)
ListsUpTo(S, n) ==
    IF n = 0 THEN {<<>>}
    ELSE LET shorter == ListsUpTo(S, n - 1)
         IN  shorter \cup {Append(l, x) : l \in {y \in shorter : Len(y) = n - 1}, x \in S}

\* PickerOptions['type']: absent, or a list of extension groups
TypeInputs == {JsNull} \cup {Some(l) : l \in ListsUpTo(StringsUpTo(MaxGroupLen), MaxGroups)}

----------------------------------------------------------------------------
(* getPickerFileSuffix *)

IsArray(v) == v # JsNull

\* String.prototype.split(' '): cut at every single space, keeping empty pieces
RECURSIVE split(_)
split(s) ==
    IF \A i \in 1..Len(s) : s[i] # " "
    THEN <<s>>
    ELSE LET k == CHOOSE i \in 1..Len(s) :
                     s[i] = " " /\ \A j \in 1..(i - 1) : s[j] # " "
         IN  <<SubSeq(s, 1, k - 1)>> \o split(SubSeq(s, k + 1, Len(s)))

RECURSIVE pushAll(_, _)
pushAll(suffixList, types) ==
    IF types = <<>> THEN suffixList
    ELSE pushAll(suffixList \o split(Head(types)), Tail(types))

getPickerFileSuffix(types) ==
    IF IsArray(types) THEN pushAll(<<>>, types[1]) ELSE <<>>

----------------------------------------------------------------------------
(* Files, paths and streams *)

\* let bufSize = 4096
bufSize == 4096

\* new ArrayBuffer(bufSize): zero-filled
ArrayBuffer == [k \in 1..bufSize |-> 0]

\* a file of n non-zero bytes
Bytes(n, seed) == [k \in 1..n |-> ((k + seed) % 255) + 1]

Path(dir, name) == [dir |-> dir, name |-> name]

\* the sizes a source file takes around the chunk size
SourceSizes ==
    {0, 1} \cup {c * bufSize + d : c \in 1..MaxChunks, d \in {0, 1}} \cup {bufSize - 1}

DirectSource(n) == Path(<<"src">>, <<"f", ToString(n)>>)

DirectDest == Path(<<"dst">>, <<"out">>)

Error(code, message) == [code |-> code, message |-> message]

ENOENT == Error("13900002", "No such file or directory")

EACCES == Error("13900012", "Permission denied")

EIO == Error("13900005", "I/O error")

ENOSPC == Error("13900025", "No space left on device")

NoPath == Path(<<>>, <<>>)

NoError == Error("", "")

NoResult == [uri |-> NoPath, type |-> Null, name |-> <<>>, size |-> 0,
             fileCopyUri |-> JsNull, copyError |-> JsNull]

NoTask ==
    [pc |-> "none", ctx |-> "none", uri |-> NoPath, source |-> NoPath, dest |-> NoPath,
     result |-> NoResult, thrown |-> NoError, buf |-> <<>>, readSize |-> 0,
     readLen |-> 0, offset |-> 0]

Stream(owner, role, path) == [owner |-> owner, role |-> role, path |-> path]

\* inputStream.read(buf, {offset, length}): bytes of the file from position
\* offset, at most length of them, land at the start of buf; the rest of buf stays
readCount(content, offset, length) ==
    IF offset >= Len(content) THEN 0
    ELSE IF Len(content) - offset < length THEN Len(content) - offset ELSE length

readInto(buf, content, offset, length) ==
    LET n == readCount(content, offset, length)
    IN  SubSeq(content, offset + 1, offset + n) \o SubSeq(buf, n + 1, Len(buf))

\* outputStream.write(buf): no length option, the whole ArrayBuffer is appended
writeBytes(buf) == buf

----------------------------------------------------------------------------
(* parseFileByFileUri: what follows the copy *)

\* `${e.code} ${e.message}`
errorText(e) == <<e.code, " ", e.message>>

\* result.fileCopyUri = await this.copyFileToLocalStorage(...)
parseThen(t) ==
    [t EXCEPT !.pc = "fulfilled", !.result.fileCopyUri = Some(t.dest)]

\* the error of the copy leaves parseFileByFileUri
parseRethrow(t, e) ==
    [t EXCEPT !.pc = "rejected"]

\* catch (err) { result.copyError = ... } return result
parseCatch(t, e) ==
    [t EXCEPT !.pc = "fulfilled", !.result.copyError = Some(errorText(e))]

\* the locals of copyFile (buf, readSize, readLen, readOptions) end with the call
leave(t) == [t EXCEPT !.buf = <<>>, !.readSize = 0, !.readLen = 0, !.offset = 0]

\* copyFile returned / threw: control goes back to whoever awaits it
Returned(t) ==
    IF t.ctx = "parse" THEN parseThen(leave(t)) ELSE [leave(t) EXCEPT !.pc = "returned"]

Thrown(t, e) ==
    IF t.ctx = "parse"
    THEN parseCatch([leave(t) EXCEPT !.thrown = e], e)
    ELSE [leave(t) EXCEPT !.pc = "threw", !.thrown = e]

----------------------------------------------------------------------------
(* copyFile *)

CreateFile(fs, path) ==
    [p \in DOMAIN fs \cup {path} |-> IF p = path THEN <<>> ELSE fs[p]]

OpenOutcomes == {"ok", "inputFails", "outputFails"}

\* lines 80-90: both streams are created and the first read is issued
copyFileOpen(i, t, o) ==
    LET in  == Stream(i, "in", t.source)
        out == Stream(i, "out", t.dest)
    IN  \/ /\ o = "inputFails"
           /\ tasks' = [tasks EXCEPT ![i] = Thrown(t, ENOENT)]
           /\ UNCHANGED <<files, openStreams>>
        \/ /\ o = "outputFails"
           /\ openStreams' = openStreams \cup {in}
           /\ tasks' = [tasks EXCEPT ![i] = Thrown(t, EACCES)]
           /\ UNCHANGED files
        \/ /\ o = "ok"
           /\ openStreams' = openStreams \cup {in, out}
           /\ files' = CreateFile(files, t.dest)
           /\ tasks' = [tasks EXCEPT ![i] =
                          [t EXCEPT !.pc = "read", !.buf = ArrayBuffer,
                                    !.readSize = 0, !.readLen = 0, !.offset = 0]]

\* a direct call copyFile(source, dest)
CopyFile(i) ==
    /\ tasks[i].pc = "copyFile"
    /\ \E o \in OpenOutcomes : copyFileOpen(i, tasks[i], o)
    /\ UNCHANGED <<sfxVars, callVars, dirs>>

\* lines 98-100
closeSync(streams, i) == {s \in streams : s.owner # i}

\* lines 90-92 and 95-97: a read settles
ReadSettle(i) ==
    LET t == tasks[i]
        n == readCount(files[t.source], t.offset, bufSize)
        r == [t EXCEPT !.buf = readInto(t.buf, files[t.source], t.offset, bufSize),
                       !.readLen = n, !.readSize = t.readSize + n]
    IN  /\ t.pc = "read"
        /\ \/ /\ tasks' = [tasks EXCEPT ![i] = Thrown(t, EIO)]
              /\ UNCHANGED openStreams
           \/ /\ n > 0
              /\ tasks' = [tasks EXCEPT ![i] = [r EXCEPT !.pc = "write"]]
              /\ UNCHANGED openStreams
           \/ /\ n = 0
              /\ openStreams' = closeSync(openStreams, i)
              /\ tasks' = [tasks EXCEPT ![i] = Returned(r)]
        /\ UNCHANGED <<sfxVars, callVars, files, dirs>>

\* lines 93-95: a write settles and the next read is issued
WriteSettle(i) ==
    LET t == tasks[i]
    IN  /\ t.pc = "write"
        /\ \/ /\ tasks' = [tasks EXCEPT ![i] = Thrown(t, ENOSPC)]
              /\ UNCHANGED files
           \/ /\ files' = [files EXCEPT ![t.dest] = @ \o writeBytes(t.buf)]
              /\ tasks' = [tasks EXCEPT ![i] =
                             [t EXCEPT !.pc = "read", !.offset = t.readSize]]
        /\ UNCHANGED <<sfxVars, callVars, dirs, openStreams>>

\* lines 83-97 run to the end without a failure: what lands in the destination
RECURSIVE copyLoop(_, _, _, _)
copyLoop(content, offset, buf, written) ==
    LET n == readCount(content, offset, bufSize)
        b == readInto(buf, content, offset, bufSize)
    IN  IF n > 0 THEN copyLoop(content, offset + n, b, written \o writeBytes(b))
        ELSE written

StreamedCopy(content) == copyLoop(content, 0, ArrayBuffer, <<>>)

----------------------------------------------------------------------------
(* parseFileByFileUri and copyFileToLocalStorage *)

Uri(dir, name) == [scheme |-> "file", dir |-> dir, name |-> name]

\* the handles the dialog can hand back: two files of the same name
Handles ==
    {Uri(<<"docs">>, <<"a", ".", "p">>),
     Uri(<<"download">>, <<"a", ".", "p">>)}

\* new fileuri.FileUri(uri).path / .name
FileUriPath(uri) == Path(uri.dir, uri.name)

FileUriName(uri) == uri.name

\* docs/a.p holds one byte, download/a.p is empty
PickedFiles ==
    [p \in {FileUriPath(h) : h \in Handles} |->
        IF p.dir = <<"docs">> THEN Bytes(1, 0) ELSE <<>>]

\* filename.lastIndexOf('.'), 0-based, -1 when there is none
lastIndexOf(str, c) ==
    IF \E k \in 1..Len(str) : str[k] = c
    THEN (CHOOSE k \in 1..Len(str) : str[k] = c /\ \A j \in (k + 1)..Len(str) : str[j] # c) - 1
    ELSE -1

\* filename.substring(start): a negative start counts as 0
substring(str, start) ==
    SubSeq(str, (IF start < 0 THEN 0 ELSE start) + 1, Len(str))

\* mime.getType: looks up what follows the last dot
mimeGetType(ext) ==
    LET e == substring(ext, lastIndexOf(ext, ".") + 1)
    IN  IF e = <<"p">> THEN "image/png"
        ELSE IF e = <<"t">> THEN "text/plain"
        ELSE Null

\* lines 125-137
parseResult(uri, fileSize) ==
    LET filename == FileUriName(uri)
        fileExt  == substring(filename, lastIndexOf(filename, "."))
    IN  [uri |-> FileUriPath(uri), type |-> mimeGetType(fileExt), name |-> filename,
         size |-> fileSize, fileCopyUri |-> JsNull, copyError |-> JsNull]

\* lines 110-112
dirPathOf(dir) == IF dir = "cachesDirectory" THEN <<"cache">> ELSE <<"files">>

\* every copy lands directly in one shared subdirectory
destSharedDir(dirPath, uuid) == dirPath \o <<"copy">>

\* line 113: dirPath + '/' + util.generateRandomUUID()
destUUIdDir(dirPath, uuid) == dirPath \o <<uuid>>

\* line 114
destFilePath(uuidDir, name) == Path(uuidDir, name)

\* util.generateRandomUUID(): no two calls return the same identifier. The
\* identifiers are interchangeable, so the one handed to the i-th resolution of
\* a pick is named after i.
generateRandomUUID(i) == ToString(i)

\* fs.stat settles: lines 126-140, and 110-115 when a copy is asked for
StatSettle(i) ==
    LET t == tasks[i]
        r == [t EXCEPT !.result = parseResult(t.uri, Len(files[FileUriPath(t.uri)])),
                       !.source = FileUriPath(t.uri)]
    IN  /\ t.pc = "stat"
        /\ \/ tasks' = [tasks EXCEPT ![i] = [t EXCEPT !.pc = "rejected", !.thrown = ENOENT]]
           \/ /\ options.copyTo = Undefined
              /\ tasks' = [tasks EXCEPT ![i] = [r EXCEPT !.pc = "fulfilled"]]
           \/ /\ options.copyTo # Undefined
              /\ tasks' = [tasks EXCEPT ![i] =
                   [r EXCEPT !.pc = "mkdir",
                             !.dest = destFilePath(destUUIdDir(dirPathOf(options.copyTo),
                                                               generateRandomUUID(i)),
                                                   FileUriName(t.uri))]]
        /\ UNCHANGED <<sfxVars, callVars, files, dirs, openStreams>>

\* fs.mkdir settles: line 115, then copyFile is entered (line 116)
MkdirSettle(i) ==
    LET t == tasks[i]
    IN  /\ t.pc = "mkdir"
        /\ \/ /\ tasks' = [tasks EXCEPT ![i] = Thrown(t, EACCES)]
              /\ UNCHANGED <<files, dirs, openStreams>>
           \/ /\ dirs' = dirs \cup {t.dest.dir}
              /\ \E o \in OpenOutcomes : copyFileOpen(i, t, o)
        /\ UNCHANGED <<sfxVars, callVars>>

----------------------------------------------------------------------------
(* pick *)

\* new picker.DocumentSelectOptions()
DocumentSelectOptions ==
    [selectMode |-> JsNull, fileSuffixFilters |-> JsNull, maxSelectNumber |-> JsNull]

\* the suffix filter is left out of the dialog's options
pickerOptUnfiltered(opts, capable) ==
    LET a == IF capable
             THEN [DocumentSelectOptions EXCEPT !.selectMode = Some("FILE")]
             ELSE DocumentSelectOptions
    IN  IF ~opts.allowMultiSelection THEN [a EXCEPT !.maxSelectNumber = Some(1)] ELSE a

\* lines 155-163
pickerOptFor(opts, capable) ==
    LET a == IF capable
             THEN [DocumentSelectOptions EXCEPT
                       !.selectMode = Some("FILE"),
                       !.fileSuffixFilters = Some(getPickerFileSuffix(opts.type))]
             ELSE DocumentSelectOptions
    IN  IF ~opts.allowMultiSelection THEN [a EXCEPT !.maxSelectNumber = Some(1)] ELSE a

\* the type filters a caller passes to pick
PickTypes ==
    {JsNull,
     Some(<< <<"a">>, <<"b", " ", "a">> >>),
     Some(<< <<"a", " ", " ", "b">> >>)}

PickOptions ==
    [type : PickTypes, allowMultiSelection : BOOLEAN,
     copyTo : {Undefined, "cachesDirectory", "documentDirectory"}]

Pending == [status |-> "pending"]

Fulfilled(v) == [status |-> "fulfilled", value |-> v]

Rejected(e) == [status |-> "rejected", reason |-> e]

Idle ==
    /\ pickPc = "idle"
    /\ dirPc = "idle"

\* lines 152-164, up to the await of select
Pick(opts) ==
    /\ Idle
    /\ options' = opts
    /\ pickerOpt' = pickerOptFor(opts, canIUse)
    /\ pickPc' = "select"
    /\ UNCHANGED <<sfxVars, canIUse, dirPc, pickerRes, retval, log, fsVars>>

\* line 165: every parseFileByFileUri runs up to its first await, fs.stat
startParse(uri) == [NoTask EXCEPT !.pc = "stat", !.ctx = "parse", !.uri = uri]

\* the error of select leaves pick
pickRethrow(e) ==
    [pc |-> "raised", retval |-> [type |-> "error", error |-> e], lines |-> <<>>]

\* lines 169-172
pickCatch(e) ==
    [pc |-> "returned", retval |-> [type |-> "undefined"], lines |-> <<errorText(e)>>]

\* the dialog closes with a selection. The dialog is the platform's: pick
\* hands it pickerOpt and takes the list it resolves with as it is.
SelectReturns(res) ==
    /\ pickPc = "select"
    /\ pickerRes' = Fulfilled(res)
    /\ tasks' = [i \in 1..Len(res) |-> startParse(res[i])]
    /\ pickPc' = "resolving"
    /\ UNCHANGED <<sfxVars, canIUse, dirPc, options, pickerOpt, retval, log,
                   files, dirs, openStreams>>

\* the dialog is cancelled or fails: select rejects
SelectRaises(e) ==
    /\ pickPc = "select"
    /\ pickerRes' = Rejected(e)
    /\ pickPc' = pickCatch(e).pc
    /\ retval' = pickCatch(e).retval
    /\ log' = log \o pickCatch(e).lines
    /\ UNCHANGED <<sfxVars, canIUse, dirPc, options, pickerOpt, fsVars>>

Settled(t) == t.pc \in {"fulfilled", "rejected"}

\* the aggregation is done as soon as one resolution is
firstSettled(ts) == ts = <<>> \/ \E i \in 1..Len(ts) : Settled(ts[i])

\* Promise.allSettled is done
allSettled(ts) == \A i \in 1..Len(ts) : Settled(ts[i])

\* line 168: parseRes.map(v => v.status === 'fulfilled' && v.value); false is <<>>
pickResultList(ts) ==
    [i \in 1..Len(ts) |-> IF ts[i].pc = "fulfilled" THEN Some(ts[i].result) ELSE <<>>]

\* lines 165-168
PickReturn ==
    /\ pickPc = "resolving"
    /\ allSettled(tasks)
    /\ pickPc' = "returned"
    /\ retval' = [type |-> "value", value |-> pickResultList(tasks)]
    /\ UNCHANGED <<sfxVars, canIUse, dirPc, options, pickerOpt, pickerRes, log, fsVars>>

----------------------------------------------------------------------------
(* pickDirectory *)

\* lines 180-183
folderOptFor(capable) ==
    IF capable THEN [DocumentSelectOptions EXCEPT !.selectMode = Some("FOLDER")]
    ELSE DocumentSelectOptions

\* pickerRes[0]: undefined when the list is empty
first(res) == IF Len(res) > 0 THEN Some(res[1]) ELSE JsNull

\* a rejection of select is logged and swallowed
pickDirectoryCaught(res) ==
    IF res.status = "fulfilled"
    THEN [pc |-> "returned", retval |-> [type |-> "value", value |-> [uri |-> first(res.value)]],
          lines |-> <<>>]
    ELSE [pc |-> "returned", retval |-> [type |-> "undefined"],
          lines |-> <<errorText(res.reason)>>]

\* lines 184-185: the awaited select is not guarded, its rejection is the
\* rejection of pickDirectory
pickDirectorySettle(res) ==
    IF res.status = "fulfilled"
    THEN [pc |-> "returned", retval |-> [type |-> "value", value |-> [uri |-> first(res.value)]],
          lines |-> <<>>]
    ELSE [pc |-> "raised", retval |-> [type |-> "error", error |-> res.reason],
          lines |-> <<>>]

PickDirectory ==
    /\ Idle
    /\ pickerOpt' = folderOptFor(canIUse)
    /\ dirPc' = "select"
    /\ UNCHANGED <<sfxVars, canIUse, pickPc, options, pickerRes, retval, log, fsVars>>

DirSelectSettles(res) ==
    /\ dirPc = "select"
    /\ pickerRes' = res
    /\ dirPc' = pickDirectorySettle(res).pc
    /\ retval' = pickDirectorySettle(res).retval
    /\ log' = log \o pickDirectorySettle(res).lines
    /\ UNCHANGED <<sfxVars, canIUse, pickPc, options, pickerOpt, fsVars>>

DirSelectReturns(res) == DirSelectSettles(Fulfilled(res))

DirSelectRaises(e) == DirSelectSettles(Rejected(e))

----------------------------------------------------------------------------
(* A direct call of getPickerFileSuffix *)

GetPickerFileSuffix ==
    /\ suffixRet = Pending
    /\ suffixRet' = Fulfilled(getPickerFileSuffix(suffixArg))
    /\ UNCHANGED <<suffixArg, callVars, fsVars>>

----------------------------------------------------------------------------
(* Specifications *)

Cancelled == Error("cancel", "user cancelled")

PlatformError == Error("13900042", "Unknown error")

DialogErrors == {Cancelled, PlatformError}

Selections == ListsUpTo(Handles, MaxHandles)

NoOptions == [type |-> JsNull, allowMultiSelection |-> FALSE, copyTo |-> Undefined]

InitCall ==
    /\ pickPc = "idle"
    /\ dirPc = "idle"
    /\ options = NoOptions
    /\ pickerOpt = DocumentSelectOptions
    /\ pickerRes = Pending
    /\ retval = [type |-> "pending"]
    /\ log = <<>>

\* the module after construction, on a device with or without folder selection
Init ==
    /\ suffixArg = JsNull
    /\ suffixRet = Pending
    /\ canIUse \in BOOLEAN
    /\ InitCall
    /\ tasks = <<>>
    /\ files = PickedFiles
    /\ dirs = {}
    /\ openStreams = {}

Next ==
    \/ \E opts \in PickOptions : Pick(opts)
    \/ \E res \in Selections : SelectReturns(res)
    \/ \E e \in DialogErrors : SelectRaises(e)
    \/ \E i \in 1..Len(tasks) : StatSettle(i)
    \/ \E i \in 1..Len(tasks) : MkdirSettle(i)
    \/ \E i \in 1..Len(tasks) : ReadSettle(i)
    \/ \E i \in 1..Len(tasks) : WriteSettle(i)
    \/ PickReturn
    \/ PickDirectory
    \/ \E res \in Selections : DirSelectReturns(res)
    \/ \E e \in DialogErrors : DirSelectRaises(e)

Spec == Init /\ [][Next]_vars

\* copyFile(source, dest) called on a source of every size around the chunk
\* size, the destination absent or holding an older file
InitCopy ==
    /\ suffixArg = JsNull
    /\ suffixRet = Pending
    /\ canIUse = TRUE
    /\ InitCall
    /\ \E n \in SourceSizes, seed \in {0, 100}, old \in {<<>>, <<9, 9, 9>>} :
          /\ tasks = <<[NoTask EXCEPT !.pc = "copyFile", !.ctx = "direct",
                                      !.source = DirectSource(n), !.dest = DirectDest]>>
          /\ files = [p \in {DirectSource(n)} \cup (IF old = <<>> THEN {} ELSE {DirectDest}) |->
                         IF p = DirectDest THEN old ELSE Bytes(n, seed)]
    /\ dirs = {DirectDest.dir}
    /\ openStreams = {}

NextCopy ==
    \/ CopyFile(1)
    \/ ReadSettle(1)
    \/ WriteSettle(1)

SpecCopy == InitCopy /\ [][NextCopy]_vars

\* getPickerFileSuffix called on every input within the bounds
InitSuffix ==
    /\ suffixArg \in TypeInputs
    /\ suffixRet = Pending
    /\ canIUse = TRUE
    /\ InitCall
    /\ tasks = <<>>
    /\ files = PickedFiles
    /\ dirs = {}
    /\ openStreams = {}

NextSuffix == GetPickerFileSuffix

SpecSuffix == InitSuffix /\ [][NextSuffix]_vars

----------------------------------------------------------------------------
(* Properties *)

TaskIds == 1..Len(tasks)

NonEmpty(x) == x # <<>>

ToSet(seq) == {seq[k] : k \in 1..Len(seq)}

\* the whitespace-separated tokens of one extension group, in order
RECURSIVE Words(_)
Words(str) ==
    IF str = <<>> THEN <<>>
    ELSE IF Head(str) = " " THEN Words(Tail(str))
    ELSE LET n == CHOOSE n \in 1..Len(str) :
                     /\ \A j \in 1..n : str[j] # " "
                     /\ n = Len(str) \/ str[n + 1] = " "
         IN  <<SubSeq(str, 1, n)>> \o Words(SubSeq(str, n + 1, Len(str)))

RECURSIVE WordsOfAll(_)
WordsOfAll(groups) ==
    IF groups = <<>> THEN <<>> ELSE Words(Head(groups)) \o WordsOfAll(Tail(groups))

\* the individual extensions of an optional list of extension groups
Extensions(types) == IF types = JsNull THEN <<>> ELSE WordsOfAll(types[1])

\* C1: when copyFile(source, dest) completes without error, the destination
\* holds exactly the bytes of the source, whatever the size of the source.
C1_CopyIsByteIdentical ==
    \A i \in TaskIds :
        tasks[i].pc = "returned" => files[tasks[i].dest] = files[tasks[i].source]

\* C2: a failure while materializing the copy of a picked item (mkdir, opening
\* either stream, a read, a write) does not leave parseFileByFileUri: the item
\* resolves with its uri, name, size and type intact, fileCopyUri null and
\* copyError holding the error, and it occupies its slot of the returned list.
C2_CopyFailureStaysInItem ==
    \A i \in TaskIds :
        LET t == tasks[i]
        IN  (t.ctx = "parse" /\ t.dest # NoPath /\ t.thrown # NoError) =>
                /\ t.pc = "fulfilled"
                /\ t.result.uri = Path(t.uri.dir, t.uri.name)
                /\ t.result.name = t.uri.name
                /\ t.result.size = Len(files[Path(t.uri.dir, t.uri.name)])
                /\ t.result.type = "image/png"
                /\ t.result.fileCopyUri = JsNull
                /\ t.result.copyError = Some(<<t.thrown.code, " ", t.thrown.message>>)
                /\ (pickPc = "returned" /\ retval.type = "value") =>
                       retval.value[i] = Some(t.result)

C2_Witness ==
    /\ pickPc = "returned"
    /\ \E i \in TaskIds :
          /\ tasks[i].thrown = ENOSPC
          /\ tasks[i].pc = "fulfilled"
          /\ tasks[i].result.copyError # JsNull

\* C3: pick returns only when every resolution has settled, with one slot per
\* handle in the order of the dialog; the slot of a handle whose resolution
\* did not fail holds that handle's record, the slot of a failed one is false.
C3_OneSlotPerHandle ==
    (pickPc = "returned" /\ retval.type = "value") =>
        /\ Len(retval.value) = Len(pickerRes.value)
        /\ \A i \in 1..Len(pickerRes.value) :
              LET h == pickerRes.value[i]
              IN  /\ tasks[i].pc \in {"fulfilled", "rejected"}
                  /\ tasks[i].pc = "rejected" => retval.value[i] = <<>>
                  /\ tasks[i].pc = "fulfilled" =>
                        /\ Len(retval.value[i]) = 1
                        /\ retval.value[i][1].uri = Path(h.dir, h.name)
                        /\ retval.value[i][1].name = h.name
                        /\ retval.value[i][1].size = Len(files[Path(h.dir, h.name)])
                        /\ retval.value[i][1].type = "image/png"

C3_Witness ==
    /\ pickPc = "returned"
    /\ retval.type = "value"
    /\ \E i, j \in TaskIds :
          /\ i < j
          /\ tasks[i].pc = "rejected"
          /\ tasks[j].pc = "fulfilled"
          /\ retval.value[j] # <<>>

\* C4: when select rejects during pick (cancellation or platform error), pick
\* does not raise: the error is logged, no resolution is started and the
\* caller gets undefined.
C4_PickSwallowsDialogError ==
    /\ pickPc # "raised"
    /\ (pickPc # "idle" /\ pickerRes.status = "rejected") =>
          /\ pickPc = "returned"
          /\ retval = [type |-> "undefined"]
          /\ log = <<<<pickerRes.reason.code, " ", pickerRes.reason.message>>>>
          /\ tasks = <<>>

C4_Witness ==
    /\ pickPc = "returned"
    /\ pickerRes = Rejected(Cancelled)
    /\ Len(log) = 1

\* C5 as stated: a rejection of select during pickDirectory is swallowed, the
\* caller gets neither a result nor an error.
C5_PickDirectorySwallows ==
    (dirPc # "idle" /\ pickerRes.status = "rejected") =>
        /\ dirPc = "returned"
        /\ retval = [type |-> "undefined"]

\* C5 as amended: a rejection of select during pickDirectory is the rejection
\* of pickDirectory: the caller gets the dialog's error, nothing is logged.
C5_PickDirectoryRaises ==
    (dirPc # "idle" /\ pickerRes.status = "rejected") =>
        /\ dirPc = "raised"
        /\ retval = [type |-> "error", error |-> pickerRes.reason]
        /\ log = <<>>

C5_Witness ==
    /\ dirPc = "raised"
    /\ pickerRes = Rejected(Cancelled)

\* C6: with allowMultiSelection false the list pick returns has at most one
\* item, whatever number of handles the dialog hands back.
C6_SingleSelectionAtMostOne ==
    (pickPc = "returned" /\ retval.type = "value" /\ ~options.allowMultiSelection) =>
        Len(retval.value) <= 1

\* C7 as stated: whenever pick is called with a type filter, the dialog is
\* invoked in file mode with exactly the individual extensions allowed.
C7_FilterAlwaysApplied ==
    (pickPc # "idle" /\ options.type # JsNull) =>
        /\ pickerOpt.selectMode = Some("FILE")
        /\ pickerOpt.fileSuffixFilters # JsNull
        /\ ToSet(SelectSeq(pickerOpt.fileSuffixFilters[1], NonEmpty))
              = ToSet(Extensions(options.type))

\* C7 as amended: on a device with the folder-selection capability the dialog
\* is invoked in file mode with a suffix filter whose non-empty entries are
\* the individual extensions of options.type, in order; on a device without
\* it the dialog is invoked with neither a mode nor a filter.
C7_FilterAppliedWhenCapable ==
    (pickPc # "idle") =>
        IF canIUse
        THEN /\ pickerOpt.selectMode = Some("FILE")
             /\ pickerOpt.fileSuffixFilters # JsNull
             /\ SelectSeq(pickerOpt.fileSuffixFilters[1], NonEmpty) = Extensions(options.type)
        ELSE /\ pickerOpt.selectMode = JsNull
             /\ pickerOpt.fileSuffixFilters = JsNull

C7_Witness ==
    /\ pickPc = "select"
    /\ canIUse
    /\ options.type # JsNull
    /\ pickerOpt.fileSuffixFilters # JsNull
    /\ Len(pickerOpt.fileSuffixFilters[1]) = 3

\* C8: getPickerFileSuffix returns the whitespace-separated tokens of all
\* groups in input order (so as many entries as there are tokens), and the
\* empty sequence for an absent input.
C8_OneEntryPerToken ==
    (suffixRet.status = "fulfilled") =>
        /\ Len(suffixRet.value) = Len(Extensions(suffixArg))
        /\ suffixRet.value = Extensions(suffixArg)

\* C9: when copyFile is over, by return or by throw, no stream it opened is
\* still open.
C9_StreamsClosedWhenCopyEnds ==
    \A i \in TaskIds :
        tasks[i].pc \in {"returned", "threw"} =>
            \A st \in openStreams : st.owner # i

\* C10: concurrent resolutions of one pick copy into destinations of their own:
\* no two copies have the same destination file or subdirectory, no
\* destination is open for writing by two copies, and what an item's copy
\* leaves behind is decided by that item alone.
C10_CopiesAreIsolated ==
    /\ \A i, j \in TaskIds :
          (i # j /\ tasks[i].dest # NoPath /\ tasks[j].dest # NoPath) =>
              /\ tasks[i].dest # tasks[j].dest
              /\ tasks[i].dest.dir # tasks[j].dest.dir
    /\ \A s1, s2 \in openStreams :
          (s1.role = "out" /\ s2.role = "out" /\ s1.path = s2.path) => s1.owner = s2.owner
    /\ \A i \in TaskIds :
          (tasks[i].pc = "fulfilled" /\ tasks[i].result.fileCopyUri # JsNull) =>
              /\ tasks[i].result.fileCopyUri = Some(tasks[i].dest)
              /\ files[tasks[i].dest] = StreamedCopy(files[tasks[i].source])

C10_Witness ==
    \E i, j \in TaskIds :
        /\ i # j
        /\ tasks[i].uri.name = tasks[j].uri.name
        /\ tasks[i].pc = "write"
        /\ tasks[j].pc \in {"read", "write"}
        /\ files[tasks[j].dest] # <<>>

====
